---- MODULE Spec2Model ----
(***************************************************************************)
(* NuoCA, the NuoDB Collection Agent (src/src/nuoca.py).                   *)
(*                                                                         *)
(* The orchestrator is one control thread (nuoca_run -> NuoCA.start ->     *)
(* _collection_cycle ... -> NuoCA.shutdown).  Every plugin is a separate   *)
(* process reached through a duplex pipe: inbox[p] holds the messages the  *)
(* orchestrator sent that the plugin has not handled yet, pipe[p] the      *)
(* responses the plugin wrote that the orchestrator has not read yet.      *)
(*                                                                         *)
(* Python values are modelled as follows:                                  *)
(*   dict        a function whose domain is a set of strings               *)
(*   None / {}   the function with the empty domain (both are falsy)       *)
(*   list        a sequence                                                *)
(*   scalar      a tagged record, Str("abc") or Int(7)                     *)
(***************************************************************************)
EXTENDS Integers, Sequences, FiniteSets, TLC

(***************************************************************************)
(* Bounds of the model.                                                    *)
(***************************************************************************)
\* longest collected_values list a plugin returns
MaxMaps == 2
\* collection cycles run when self_test is off (the loop itself is endless)
MaxCycles == 2
\* responses a plugin may leave unread in its pipe
MaxPipe == 1
\* faults of the environment in one run: a send that raises, a poll that
\* times out on a plugin that has a request to answer, a response that is
\* not the well-formed success response, a configured plugin missing on disk
MaxFaults == 2
\* polling cycles the collection thread of mpNuoMonitor runs
MaxPolls == 3
\* observations one poll of nuomonitor returns at most
MaxContent == 2
\* collect calls mpNuoMonitor handles
MaxCollects == 2

(***************************************************************************)
(* Program constants (src/src/nuoca_config.py).                            *)
(***************************************************************************)
SELFTEST_LOOP_COUNT == 5
SUBPROCESS_EXIT_TIMEOUT == 5

(***************************************************************************)
(* Python values.                                                          *)
(***************************************************************************)
Str(x) == [t |-> "str", i |-> 0, s |-> x]
Int_(n) == [t |-> "int", i |-> n, s |-> ""]

\* the empty dict; None is modelled by the same value (both are falsy)
EmptyDict == [k \in {} |-> Str("")]
None == EmptyDict

\* `not d` for a dict or None
Falsy(d) == DOMAIN d = {}

\* dict.update: the keys of e are written over those of d
DictUpdate(d, e) ==
  [k \in DOMAIN d \cup DOMAIN e |-> IF k \in DOMAIN e THEN e[k] ELSE d[k]]

\* d[k] = v
DictSet(d, k, v) == [x \in DOMAIN d \cup {k} |-> IF x = k THEN v ELSE d[x]]

\* del d[k]
DictDel(d, k) == [x \in DOMAIN d \ {k} |-> d[x]]

\* int(v): the decimal strings the plugins of the model emit, and integers.
\* Any other string makes int() raise ValueError.
DecimalStrings == [s \in {"1000", "7"} |-> IF s = "1000" THEN 1000 ELSE 7]
IntRaises(v) == v.t = "str" /\ v.s \notin DOMAIN DecimalStrings
IntOf(v) == IF v.t = "int" THEN v.i ELSE DecimalStrings[v.s]

(***************************************************************************)
(* _collect_inputs, lines 286-301: one Record per raw collected-value map. *)
(***************************************************************************)
\* lines 289-292: the plugin name, or the map's nuocaCollectionName
KeyPrefix(plugin_name, collected_dict) ==
  IF "nuocaCollectionName" \in DOMAIN collected_dict
  THEN collected_dict["nuocaCollectionName"].s
  ELSE plugin_name

\* line 293: the map that is iterated, nuocaCollectionName deleted
Remaining(collected_dict) ==
  IF "nuocaCollectionName" \in DOMAIN collected_dict
  THEN DictDel(collected_dict, "nuocaCollectionName")
  ELSE collected_dict

\* what makes the body of the loop raise (caught at line 302): a prefix that
\* is no string (str + '.' raises TypeError), a TimeStamp int() rejects
MapRaises(collected_dict) ==
  \/ /\ "nuocaCollectionName" \in DOMAIN collected_dict
     /\ collected_dict["nuocaCollectionName"].t # "str"
  \/ /\ "TimeStamp" \in DOMAIN Remaining(collected_dict)
     /\ IntRaises(collected_dict["TimeStamp"])

\* lines 294-298: every remaining field under <prefix>.<field>, and the
\* integer value of TimeStamp under 'timestamp'
PluginValues(plugin_name, collected_dict) ==
  LET key_prefix == KeyPrefix(plugin_name, collected_dict)
      d == Remaining(collected_dict)
      key_name(item) == key_prefix \o "." \o item
      keyed == [k \in {key_name(item) : item \in DOMAIN d} |->
                  d[CHOOSE item \in DOMAIN d : key_name(item) = k]]
  IN  IF "TimeStamp" \in DOMAIN d
      THEN DictSet(keyed, "timestamp", Int_(IntOf(d["TimeStamp"])))
      ELSE keyed

\* lines 288-300 with the static output values applied first
NewValuesStaticFirst(plugin_name, collected_dict, output_values) ==
  DictUpdate(output_values, PluginValues(plugin_name, collected_dict))

\* lines 288-300: new_values of one map; lines 299-300 update it with the
\* static output values when there are any
NewValues(plugin_name, collected_dict, output_values) ==
  IF Falsy(output_values)
  THEN PluginValues(plugin_name, collected_dict)
  ELSE DictUpdate(PluginValues(plugin_name, collected_dict), output_values)

\* lines 286-301: the Records appended to rval for one plugin; the first map
\* that raises ends the loop (the except clause at line 302 is outside it)
RECURSIVE CollectedRecords(_, _, _)
CollectedRecords(plugin_name, collected_values, output_values) ==
  IF collected_values = << >> \/ MapRaises(Head(collected_values))
  THEN << >>
  ELSE <<NewValues(plugin_name, Head(collected_values), output_values)>>
       \o CollectedRecords(plugin_name, Tail(collected_values), output_values)

(***************************************************************************)
(* _get_plugin_respose, lines 153-175: the response handed to the caller.  *)
(***************************************************************************)
CheckedResponse(response) ==
  IF Falsy(response) THEN None
  ELSE IF "status_code" \notin DOMAIN response THEN None
  ELSE response

(***************************************************************************)
(* _collection_cycle, lines 105-107: the Record as it is passed to         *)
(* _store_outputs.                                                         *)
(***************************************************************************)
\* lines 105-107 writing the tick over a timestamp the Record already has
FinalizedOverwrite(list_item, collection_interval, collection_time) ==
  DictSet(DictSet(list_item, "collection_interval", Int_(collection_interval)),
          "timestamp", Int_(collection_time))

Finalized(list_item, collection_interval, collection_time) ==
  LET with_interval ==
        DictSet(list_item, "collection_interval", Int_(collection_interval))
  IN  IF "timestamp" \notin DOMAIN with_interval
      THEN DictSet(with_interval, "timestamp", Int_(collection_time))
      ELSE with_interval

(***************************************************************************)
(* Configuration and environment of the model.                             *)
(***************************************************************************)
\* config.INPUT_PLUGINS and config.OUTPUT_PLUGINS, in configuration order
INPUT_PLUGINS == <<"A", "B", "C">>
OUTPUT_PLUGINS == <<"P", "Q">>
\* lines 344 and 363 going through every plugin found as well
ConfiguredAndFound == INPUT_PLUGINS \o OUTPUT_PLUGINS \o <<"Z">>

\* lines 344 and 363: the configured plugins, in the order they are started
Configured == INPUT_PLUGINS \o OUTPUT_PLUGINS

Range(seq) == {seq[i] : i \in 1..Len(seq)}
InputNames == Range(INPUT_PLUGINS)
OutputNames == Range(OUTPUT_PLUGINS)
\* a plugin found on disk that the configuration does not name
Unconfigured == {"Z"}

\* a candidate found in the input directory whose name, P, is configured as
\* an output plugin only
Miscategorised == {"P@Input"}
PluginName(p) == IF p = "P@Input" THEN "P" ELSE p

Plugins == InputNames \cup OutputNames \cup Unconfigured \cup Miscategorised

\* the constructor's collection_interval argument (its default)
collection_interval == 30

\* the constructor's starttime argument: <<>> is None, <<n>> the epoch n
StartTimes == {<< >>, <<0>>, <<1>>, <<2>>}
\* nuoca_gettimestamp() at construction
Times == {1, 2}
\* tick timestamps wait_for_next_interval returns, in seconds
Ticks == {3}

\* parse_keyval_list(output_values): the static output values
OutputValueChoices ==
  { EmptyDict,
    [k \in {"env", "A.x"} |-> IF k = "env" THEN Str("prod") ELSE Str("9")],
    [k \in {"timestamp", "collection_interval"} |->
       IF k = "timestamp" THEN Str("5") ELSE Str("60")] }

\* raw collected-value maps the plugins emit
PlainMap == [k \in {"x"} |-> Str("1")]
StampedMap ==
  [k \in {"x", "TimeStamp"} |-> IF k = "x" THEN Str("1") ELSE Str("1000")]
NamedMap ==
  [k \in {"nuocaCollectionName", "y"} |->
     IF k = "y" THEN Str("2") ELSE Str("custom")]
BadStampMap ==
  [k \in {"x", "TimeStamp"} |-> IF k = "x" THEN Str("1") ELSE Str("abc")]
RawMaps == {PlainMap, StampedMap, NamedMap, BadStampMap}

\* a collected_values value: a list of raw maps, or something that is no list
ListOf(items) == [islist |-> TRUE, items |-> items]
NotAList(items) == [islist |-> FALSE, items |-> items]

ListsUpTo(S, n) == UNION {[1..m -> S] : m \in 1..n}

\* the non-empty collected_values lists the plugins return in a run: in a
\* protocol run two fixed lists, in a data run every list of up to MaxMaps
\* raw maps
PlainLists == {<<PlainMap>>, <<StampedMap, NamedMap>>}
AllLists == ListsUpTo(RawMaps, MaxMaps)

\* the success response to startup, store and shutdown
Success == [k \in {"status_code"} |-> 0]

\* the other responses to startup, store and shutdown: a failure status, no
\* status_code, an empty payload
StatusFaults ==
  {[k \in {"status_code"} |-> 1], [k \in {"detail"} |-> 0], [k \in {} |-> 0]}

CollectResponse(status_code, collected_values) ==
  [status_code |-> status_code,
   resp_values |-> [collected_values |-> collected_values]]

\* the well-formed success responses to collect: a list, possibly empty
CollectSuccess(lists) ==
  {CollectResponse(0, ListOf(l)) : l \in lists \cup {<< >>}}

\* the other responses to collect: a failure status, an empty payload, no
\* status_code, no resp_values, no collected_values, collected_values that
\* is no list
CollectFaults(lists) ==
  {CollectResponse(1, ListOf(l)) : l \in lists}
  \cup { [k \in {} |-> 0],
         [resp_values |-> [collected_values |-> ListOf(<<PlainMap>>)]],
         [k \in {"status_code"} |-> 0],
         [status_code |-> 0, resp_values |-> [k \in {} |-> 0]],
         CollectResponse(0, NotAList(<<PlainMap>>)) }

\* what a plugin may write in response to a message, without fault and as a
\* fault
GoodResponses(action, lists) ==
  IF action = "collect" THEN CollectSuccess(lists) ELSE {Success}
FaultResponses(action, lists) ==
  IF action = "collect" THEN CollectFaults(lists)
  ELSE IF action = "shutdown" THEN {}
  ELSE StatusFaults

(***************************************************************************)
(* State.                                                                  *)
(***************************************************************************)
VARIABLES
  pc,                \* where the control thread of nuoca_run is
  starttime,         \* nuoca_run's starttime argument (None once consumed)
  current_timestamp, \* nuoca_gettimestamp() read by __init__
  nuoca_obj,         \* nuoca_run's nuoca_obj is set (construction succeeded)
  raised,            \* the exception nuoca_run caught, or "none"
  self_starttime,    \* self._starttime
  self_test,         \* self._self_test
  output_values,     \* self._output_values
  enabled,           \* self._enabled
  manager,           \* self.manager exists
  loaded,            \* the plugins the manager loaded (one process each)
  is_activated,      \* is_activated of each plugin
  input_plugins,     \* keys of self._input_plugins
  output_plugins,    \* keys of self._output_plugins
  inbox,             \* messages sent to each plugin it has not handled yet
  pipe,              \* responses of each plugin not read yet (child_pipe)
  proc,              \* each plugin process: "none", "alive", "exited", "terminated"
  idx,               \* position of the running for loop over plugins
  activated_plugins, \* the local activated_plugins / all_plugins
  rval,              \* _collect_inputs' rval, then collected_inputs
  rec_idx,           \* position of _collection_cycle's loop over the Records
  loop_count,        \* start()'s loop_count
  collection_time,   \* _collection_cycle's collection_time (ms)
  wait_count,        \* kill_all_plugin_processes' wait_count
  \* the environment of the run
  candidates,        \* the plugins locatePlugins finds on disk
  lists,             \* the non-empty collected_values lists plugins return
  faults_left,       \* faults the environment may still produce
  \* history, read by the properties only
  startup_failed,    \* plugins _startup_plugin disabled
  timedout,          \* input plugins whose collect poll timed out this cycle
  accepted,          \* the collected_values list accepted from each plugin this cycle
  produced,          \* for each Record of rval: its plugin and its raw map
  store_log,         \* the ts_values passed to send for each output plugin this cycle
  in_flight,         \* for each plugin: the messages sent to it since it was last polled
  attempted          \* for each plugin: the startup, shutdown and exit sends tried, in order

\* the mpNuoMonitor plugin process (tests/dev/plugins/input/mpNuoMonitor.py)
VARIABLES
  mon_state,           \* the last lifecycle message the plugin handled
  mon_enabled,         \* self._enabled
  mon_public_enabled,  \* the attribute self.enabled, FALSE once it is set
  nuomonitor_interval, \* self._nuomonitor_interval, 0 for None
  thread_pc,           \* where _collection_thread is
  thread_loop_count,   \* _collection_thread's loop_count
  collect_queue,       \* self._nuomonitor_collect_queue
  collect_log          \* history: the observations each collect call aggregated

monitor_vars == <<mon_state, mon_enabled, mon_public_enabled,
                  nuomonitor_interval, thread_pc, thread_loop_count,
                  collect_queue, collect_log>>

run_vars == <<pc, starttime, current_timestamp, nuoca_obj, raised, self_starttime,
              self_test, output_values, enabled, manager, loaded, is_activated,
              input_plugins, output_plugins, inbox, pipe, proc, idx,
              activated_plugins, rval, rec_idx, loop_count, collection_time,
              wait_count, candidates, lists, faults_left, startup_failed,
              timedout, accepted, produced, store_log, in_flight,
              attempted>>

vars == <<run_vars, monitor_vars>>

arg_vars == <<starttime, current_timestamp>>
config_vars == <<self_starttime, self_test, output_values, candidates, lists>>
registry_vars == <<manager, loaded, is_activated, input_plugins, output_plugins>>
cycle_vars == <<activated_plugins, rval, rec_idx, collection_time>>
history_vars == <<startup_failed, timedout, accepted, produced, store_log>>

NoList == [p \in Plugins |-> << >>]

\* the state of a process in which nuoca_run has not run yet
Fresh ==
  /\ pc = "init"
  /\ nuoca_obj = FALSE
  /\ raised = "none"
  /\ self_starttime = << >>
  /\ enabled = FALSE
  /\ manager = FALSE
  /\ loaded = {}
  /\ is_activated = [p \in Plugins |-> FALSE]
  /\ input_plugins = << >>
  /\ output_plugins = << >>
  /\ inbox = NoList
  /\ pipe = NoList
  /\ proc = [p \in Plugins |-> "none"]
  /\ in_flight = [p \in Plugins |-> 0]
  /\ attempted = NoList
  /\ idx = 0
  /\ activated_plugins = << >>
  /\ rval = << >>
  /\ rec_idx = 0
  /\ loop_count = 0
  /\ collection_time = 0
  /\ wait_count = 0
  /\ startup_failed = {}
  /\ timedout = {}
  /\ accepted = NoList
  /\ produced = << >>
  /\ store_log = NoList

\* MPNuoMonitor.__init__ (lines 25-35)
MonitorFresh ==
  /\ mon_state = "new"
  /\ mon_enabled = FALSE
  /\ mon_public_enabled = TRUE
  /\ nuomonitor_interval = 0
  /\ thread_pc = "none"
  /\ thread_loop_count = 0
  /\ collect_queue = << >>
  /\ collect_log = << >>

\* what locatePlugins finds on disk: one input and two output plugins, three
\* input plugins and one output plugin, or no configured plugin at all;
\* always a plugin that is not configured
CandidateChoices ==
  { {"A", "P", "Q"} \cup Unconfigured,
    {"A", "B", "C", "P"} \cup Unconfigured \cup Miscategorised,
    Unconfigured \cup Miscategorised,
    Unconfigured }
Smallest == {"A", "P", "Q"} \cup Unconfigured

\* a protocol run: plugins that fail up to MaxFaults times.  The starttime
\* and the self test vary in the runs with the fewest plugins.
Init ==
  /\ Fresh
  /\ MonitorFresh
  /\ candidates \in CandidateChoices
  /\ self_test \in (IF candidates = Smallest \/ "A" \notin candidates
                    THEN BOOLEAN ELSE {FALSE})
  /\ starttime \in (IF candidates = Smallest /\ ~self_test
                    THEN StartTimes ELSE {<< >>})
  /\ current_timestamp \in Times
  /\ output_values = EmptyDict
  /\ lists = PlainLists
  /\ faults_left = MaxFaults

\* a data run: one input and one output plugin, any collected_values list
\* and any static output values, no fault
InitData ==
  /\ Fresh
  /\ MonitorFresh
  /\ starttime = << >>
  /\ current_timestamp \in Times
  /\ self_test \in BOOLEAN
  /\ output_values \in OutputValueChoices
  /\ candidates = {"A", "P", "Z"}
  /\ lists = AllLists
  /\ faults_left = 0

(***************************************************************************)
(* NuoCA.__init__, called by nuoca_run (lines 44-90, 500-504).             *)
(***************************************************************************)
\* `if self._starttime`: None and 0 are falsy
Truthy(st) == st # << >> /\ st[1] # 0

\* lines 45-51: the constructor raises AttributeError
StartTimeRejected(st, now) == Truthy(st) /\ now >= st[1]

NuoCA_init ==
  /\ pc = "init"
  /\ IF StartTimeRejected(starttime, current_timestamp)
     THEN /\ raised' = "AttributeError"
          /\ pc' = "finally"
          /\ UNCHANGED <<nuoca_obj, self_starttime, enabled>>
     ELSE /\ nuoca_obj' = TRUE
          /\ self_starttime' = IF Truthy(starttime) THEN starttime ELSE << >>
          /\ enabled' = TRUE
          /\ pc' = "start"
          /\ UNCHANGED raised
  /\ starttime' = << >>
  /\ current_timestamp' = 0
  /\ UNCHANGED <<self_test, output_values, candidates, lists, registry_vars,
                 inbox, pipe, proc, idx, cycle_vars, loop_count, wait_count,
                 faults_left, history_vars>>
  /\ UNCHANGED in_flight
  /\ UNCHANGED attempted
  /\ UNCHANGED monitor_vars

(***************************************************************************)
(* The pipe to a plugin.                                                   *)
(***************************************************************************)
\* child_pipe.send(plugin_msg): the message reaches the plugin, or send
\* raises and the caller logs it
Sent(p, action, ok) ==
  IF ok THEN [inbox EXCEPT ![p] = Append(@, action)] ELSE inbox

\* the outcomes of a send the environment can still produce
SendOutcomes(budget) == IF budget > 0 THEN BOOLEAN ELSE {TRUE}
SendCost(ok) == IF ok THEN 0 ELSE 1

\* child_pipe.poll(PLUGIN_PIPE_TIMEOUT): a response is there to be read
Polled(p) == pipe[p] # << >>

\* a poll that times out although the plugin has a message to answer
TimeoutCost(p) == IF ~Polled(p) /\ inbox[p] # << >> THEN 1 ELSE 0

\* _get_plugin_respose (lines 127-175): the response read, None on a timeout
PluginResponse(p) ==
  IF Polled(p) THEN CheckedResponse(Head(pipe[p])) ELSE None

\* the pipe after _get_plugin_respose
PipeAfterRecv(p) ==
  IF Polled(p) THEN [pipe EXCEPT ![p] = Tail(@)] ELSE pipe

\* the messages in flight after send, and after _get_plugin_respose returned
\* (the response was read, or the timeout was hit)
FlightAfterSend(f, p, ok) == IF ok THEN [f EXCEPT ![p] = @ + 1] ELSE f
FlightAfterPoll(f, p) == [f EXCEPT ![p] = 0]

\* child_pipe.send is called with a startup, shutdown or exit message for p
Attempt(p, action) == [attempted EXCEPT ![p] = Append(@, action)]

\* getAllPlugins (line 424): every loaded plugin, in configuration order
getAllPlugins(names) == SelectSeq(names, LAMBDA p : p \in loaded)

\* the plugins of the manager by category: Input, then Output
ManagerOrder == INPUT_PLUGINS \o <<"P@Input">> \o OUTPUT_PLUGINS

\* _get_activated_input_plugins / _get_activated_output_plugins (lines 111-125)
GetActivated(names) ==
  SelectSeq(names, LAMBDA p : p \in loaded /\ is_activated[p])

(***************************************************************************)
(* The plugin processes.                                                   *)
(***************************************************************************)
\* the orchestrator is about to read the pipe of p or to look at its process
Observed(p) ==
  \/ pc = "startup" /\ Configured[idx] = p
  \/ /\ pc \in {"collect_recv", "store_recv", "kill_all"}
     /\ idx <= Len(activated_plugins)
     /\ activated_plugins[idx] = p

\* A plugin handles the oldest message sent to it: it writes a response, or
\* on exit leaves.  What a plugin does shows only when the orchestrator
\* reads its pipe or looks at its process, so its steps are taken then.
PluginHandle(p) ==
  /\ proc[p] = "alive"
  /\ inbox[p] # << >>
  /\ Observed(p)
  /\ inbox' = [inbox EXCEPT ![p] = Tail(@)]
  /\ IF Head(inbox[p]) = "exit"
     THEN /\ proc' = [proc EXCEPT ![p] = "exited"]
          /\ UNCHANGED <<pipe, faults_left>>
     ELSE /\ Len(pipe[p]) < MaxPipe
          /\ \/ /\ \E r \in GoodResponses(Head(inbox[p]), lists) :
                     pipe' = [pipe EXCEPT ![p] = Append(@, r)]
                /\ UNCHANGED faults_left
             \/ /\ faults_left > 0
                /\ \E r \in FaultResponses(Head(inbox[p]), lists) :
                     pipe' = [pipe EXCEPT ![p] = Append(@, r)]
                /\ faults_left' = faults_left - 1
          /\ UNCHANGED proc
  /\ UNCHANGED <<pc, arg_vars, nuoca_obj, raised, config_vars, enabled,
                 registry_vars, idx, cycle_vars, loop_count, wait_count,
                 history_vars>>
  /\ UNCHANGED in_flight
  /\ UNCHANGED attempted
  /\ UNCHANGED monitor_vars

(***************************************************************************)
(* NuoCA.start (lines 466-483).                                            *)
(***************************************************************************)
\* lines 384-394: the name is configured, in whatever category
is_plugin_name_configured(name) == name \in Range(Configured)

\* lines 397-406 loading every candidate found
LoadedUnfiltered(cands) == cands

\* lines 397-406: the candidates that are not configured are removed, the
\* rest is loaded
LoadedPlugins(cands) == {c \in cands : is_plugin_name_configured(PluginName(c))}

\* lines 470-471: the manager is created and the plugins are loaded, one
\* process each
activate_configured_plugins ==
  /\ pc = "start"
  /\ manager' = TRUE
  /\ loaded' = LoadedPlugins(candidates)
  /\ proc' = [p \in Plugins |->
                IF p \in LoadedPlugins(candidates) THEN "alive" ELSE "none"]
  /\ idx' = 1
  /\ pc' = "activate"
  /\ UNCHANGED <<arg_vars, nuoca_obj, raised, config_vars, enabled,
                 is_activated, input_plugins, output_plugins, inbox, pipe,
                 cycle_vars, loop_count, wait_count, faults_left,
                 history_vars>>
  /\ UNCHANGED in_flight
  /\ UNCHANGED attempted
  /\ UNCHANGED monitor_vars

\* lines 344 and 363 ending the loops after the first configured plugin
AllStartedAfterFirst(i) == i > 1

\* lines 344 and 363: the loops over the configured plugins are over
AllStarted(i) == i > Len(Configured)

\* lines 344-380, one configured plugin: activation and the startup message
activate_and_startup_plugins ==
  /\ pc = "activate"
  /\ ~AllStarted(idx)
  /\ LET p == Configured[idx] IN
       IF p \notin loaded
       THEN \* activatePluginByName finds no such plugin: skipped
            /\ idx' = idx + 1
            /\ UNCHANGED <<pc, is_activated, inbox, faults_left, in_flight,
                           attempted>>
       ELSE /\ is_activated' = [is_activated EXCEPT ![p] = TRUE]
            /\ attempted' = Attempt(p, "startup")
            /\ \E ok \in SendOutcomes(faults_left) :
                 /\ inbox' = Sent(p, "startup", ok)
                 /\ in_flight' = FlightAfterSend(in_flight, p, ok)
                 /\ faults_left' = faults_left - SendCost(ok)
            /\ pc' = "startup"
            /\ UNCHANGED idx
  /\ UNCHANGED <<arg_vars, nuoca_obj, raised, config_vars, enabled, manager,
                 loaded, input_plugins, output_plugins, pipe, proc,
                 cycle_vars, loop_count, wait_count, history_vars>>
  /\ UNCHANGED monitor_vars

\* lines 200-205 leaving a plugin activated whatever its startup response
StartupFailedNever(response) == FALSE

\* line 200: the startup response that disables the plugin
StartupFailed(response) ==
  Falsy(response) \/ response["status_code"] # 0

\* what the pipe of p holds when its startup response is read: nothing
\* within the timeout, a payload without status_code, or a status_code that
\* is not 0
BadStartup(p) ==
  \/ ~Polled(p)
  \/ "status_code" \notin DOMAIN Head(pipe[p])
  \/ Head(pipe[p])["status_code"] # 0

\* lines 194-205 and 360-361 / 379-380: the startup response is read; a
\* plugin that failed is deactivated and sent shutdown; the plugin is tracked
startup_plugin ==
  /\ pc = "startup"
  /\ LET p == Configured[idx]
         response == PluginResponse(p)
     IN  /\ TimeoutCost(p) <= faults_left
         /\ pipe' = PipeAfterRecv(p)
         /\ IF StartupFailed(response)
            THEN /\ is_activated' = [is_activated EXCEPT ![p] = FALSE]
                 /\ attempted' = Attempt(p, "shutdown")
                 /\ \E ok \in SendOutcomes(faults_left - TimeoutCost(p)) :
                      /\ inbox' = Sent(p, "shutdown", ok)
                      /\ in_flight' =
                           FlightAfterSend(FlightAfterPoll(in_flight, p), p, ok)
                      /\ faults_left' =
                           faults_left - TimeoutCost(p) - SendCost(ok)
            ELSE /\ faults_left' = faults_left - TimeoutCost(p)
                 /\ in_flight' = FlightAfterPoll(in_flight, p)
                 /\ UNCHANGED <<is_activated, inbox, attempted>>
         /\ startup_failed' =
              IF BadStartup(p) THEN startup_failed \cup {p} ELSE startup_failed
         /\ IF p \in InputNames
            THEN /\ input_plugins' = Append(input_plugins, p)
                 /\ UNCHANGED output_plugins
            ELSE /\ output_plugins' = Append(output_plugins, p)
                 /\ UNCHANGED input_plugins
  /\ idx' = idx + 1
  /\ pc' = "activate"
  /\ UNCHANGED <<arg_vars, nuoca_obj, raised, config_vars, enabled, manager,
                 loaded, proc, cycle_vars, loop_count, wait_count, timedout,
                 accepted, produced, store_log>>
  /\ UNCHANGED monitor_vars

\* line 472: every configured plugin was handled, the interval loop begins
start_loop ==
  /\ pc = "activate"
  /\ AllStarted(idx)
  /\ pc' = "loop"
  /\ idx' = 0
  /\ UNCHANGED <<arg_vars, nuoca_obj, raised, config_vars, enabled,
                 registry_vars, inbox, pipe, proc, cycle_vars, loop_count,
                 wait_count, faults_left, history_vars>>
  /\ UNCHANGED in_flight
  /\ UNCHANGED attempted
  /\ UNCHANGED monitor_vars

\* lines 477-480 and 101-103, 245-248: a tick, and _collect_inputs begins.
\* Without self_test the loop is endless; the model runs MaxCycles of it.
collection_loop ==
  /\ pc = "loop"
  /\ enabled
  /\ self_test \/ loop_count < MaxCycles
  /\ loop_count' = loop_count + 1
  /\ \E collection_timestamp \in Ticks :
       collection_time' = collection_timestamp * 1000
  /\ activated_plugins' = GetActivated(INPUT_PLUGINS)
  /\ rval' = << >>
  /\ rec_idx' = 0
  /\ idx' = 1
  /\ timedout' = {}
  /\ accepted' = NoList
  /\ produced' = << >>
  /\ store_log' = NoList
  /\ pc' = "collect_send"
  /\ UNCHANGED <<arg_vars, nuoca_obj, raised, config_vars, enabled,
                 registry_vars, inbox, pipe, proc, wait_count, faults_left,
                 startup_failed>>
  /\ UNCHANGED in_flight
  /\ UNCHANGED attempted
  /\ UNCHANGED monitor_vars

\* line 477: self._enabled is False, start() returns
start_returns ==
  /\ pc = "loop"
  /\ ~enabled
  /\ pc' = "finally"
  /\ UNCHANGED <<arg_vars, nuoca_obj, raised, config_vars, enabled,
                 registry_vars, inbox, pipe, proc, idx, cycle_vars,
                 loop_count, wait_count, faults_left, history_vars>>
  /\ UNCHANGED in_flight
  /\ UNCHANGED attempted
  /\ UNCHANGED monitor_vars

(***************************************************************************)
(* NuoCA._collect_inputs (lines 239-308).                                  *)
(***************************************************************************)
\* lines 249-257: collect is sent to one activated input plugin; after the
\* last one the loop over the responses begins
collect_inputs_send ==
  /\ pc = "collect_send"
  /\ IF idx <= Len(activated_plugins)
     THEN /\ \E ok \in SendOutcomes(faults_left) :
               /\ inbox' = Sent(activated_plugins[idx], "collect", ok)
               /\ in_flight' =
                    FlightAfterSend(in_flight, activated_plugins[idx], ok)
               /\ faults_left' = faults_left - SendCost(ok)
          /\ idx' = idx + 1
          /\ UNCHANGED pc
     ELSE /\ pc' = "collect_recv"
          /\ idx' = 1
          /\ UNCHANGED <<inbox, faults_left, in_flight>>
  /\ UNCHANGED <<arg_vars, nuoca_obj, raised, config_vars, enabled,
                 registry_vars, pipe, proc, cycle_vars, loop_count,
                 wait_count, history_vars>>
  /\ UNCHANGED attempted
  /\ UNCHANGED monitor_vars

\* lines 267-284: the response has Records to take
HasCollectedValues(response) ==
  /\ "collected_values" \in DOMAIN response["resp_values"]
  /\ response["resp_values"]["collected_values"].items # << >>
  /\ response["resp_values"]["collected_values"].islist

\* lines 259-307, one activated input plugin: its response is read and its
\* Records are appended to rval.  Line 263 is outside the try: a response
\* with status_code and without resp_values raises KeyError, which leaves
\* _collect_inputs, _collection_cycle and start() and is caught by nuoca_run
collect_inputs_recv ==
  /\ pc = "collect_recv"
  /\ idx <= Len(activated_plugins)
  /\ LET p == activated_plugins[idx]
         response == PluginResponse(p)
     IN  /\ TimeoutCost(p) <= faults_left
         /\ faults_left' = faults_left - TimeoutCost(p)
         /\ pipe' = PipeAfterRecv(p)
         /\ timedout' = IF Polled(p) THEN timedout ELSE timedout \cup {p}
         /\ in_flight' = FlightAfterPoll(in_flight, p)
         /\ IF Falsy(response)
            THEN /\ idx' = idx + 1
                 /\ UNCHANGED <<pc, raised, rval, accepted, produced>>
            ELSE IF "resp_values" \notin DOMAIN response
            THEN /\ raised' = "KeyError"
                 /\ pc' = "finally"
                 /\ UNCHANGED <<idx, rval, accepted, produced>>
            ELSE IF ~HasCollectedValues(response)
            THEN /\ idx' = idx + 1
                 /\ UNCHANGED <<pc, raised, rval, accepted, produced>>
            ELSE LET collected_values ==
                       response["resp_values"]["collected_values"].items
                     records ==
                       CollectedRecords(p, collected_values, output_values)
                 IN  /\ rval' = rval \o records
                     /\ accepted' = [accepted EXCEPT ![p] = collected_values]
                     /\ produced' = produced \o
                          [i \in 1..Len(records) |->
                             [plugin |-> p, raw |-> collected_values[i]]]
                     /\ idx' = idx + 1
                     /\ UNCHANGED <<pc, raised>>
  /\ UNCHANGED <<arg_vars, nuoca_obj, config_vars, enabled, registry_vars,
                 inbox, proc, activated_plugins, rec_idx, collection_time,
                 loop_count, wait_count, startup_failed, store_log>>
  /\ UNCHANGED attempted
  /\ UNCHANGED monitor_vars

\* line 103 with an empty Record to store when nothing was collected
CollectedInputsOrEmptyRecord(records) ==
  IF records = << >> THEN <<EmptyDict>> ELSE records

\* line 103: collected_inputs is the list _collect_inputs returned
CollectedInputs(records) == records

\* lines 308 and 103: rval is returned to _collection_cycle
collect_inputs_return ==
  /\ pc = "collect_recv"
  /\ idx > Len(activated_plugins)
  /\ pc' = "cycle"
  /\ rval' = CollectedInputs(rval)
  /\ rec_idx' = 1
  /\ idx' = 0
  /\ activated_plugins' = << >>
  /\ UNCHANGED <<arg_vars, nuoca_obj, raised, config_vars, enabled,
                 registry_vars, inbox, pipe, proc, collection_time,
                 loop_count, wait_count, faults_left, history_vars>>
  /\ UNCHANGED in_flight
  /\ UNCHANGED attempted
  /\ UNCHANGED monitor_vars

(***************************************************************************)
(* NuoCA._collection_cycle (lines 104-109) and _store_outputs (310-330).   *)
(***************************************************************************)
\* line 104 ending the loop after the first Record
RecordsDoneAfterFirst(i, collected_inputs) ==
  i > 1 \/ i > Len(collected_inputs)

\* line 104: the loop over the Records is over
RecordsDone(i, collected_inputs) == i > Len(collected_inputs)

\* lines 104-109, 311-315: the next Record is finalized and _store_outputs
\* is called with it (line 109 is inside the for loop)
collection_cycle ==
  /\ pc = "cycle"
  /\ ~RecordsDone(rec_idx, rval)
  /\ rval' = [rval EXCEPT ![rec_idx] =
                Finalized(@, collection_interval, collection_time)]
  /\ activated_plugins' = GetActivated(OUTPUT_PLUGINS)
  /\ idx' = 1
  /\ pc' = "store_send"
  /\ UNCHANGED <<arg_vars, nuoca_obj, raised, config_vars, enabled,
                 registry_vars, inbox, pipe, proc, rec_idx, collection_time,
                 loop_count, wait_count, faults_left, history_vars>>
  /\ UNCHANGED in_flight
  /\ UNCHANGED attempted
  /\ UNCHANGED monitor_vars

\* lines 316-323: store is sent to one activated output plugin; ts_values is
\* the Record _store_outputs was called with
store_outputs_send ==
  /\ pc = "store_send"
  /\ IF idx <= Len(activated_plugins)
     THEN /\ \E ok \in SendOutcomes(faults_left) :
               /\ inbox' = Sent(activated_plugins[idx], "store", ok)
               /\ in_flight' =
                    FlightAfterSend(in_flight, activated_plugins[idx], ok)
               /\ faults_left' = faults_left - SendCost(ok)
          /\ store_log' = [store_log EXCEPT ![activated_plugins[idx]] =
                             Append(@, rval[rec_idx])]
          /\ idx' = idx + 1
          /\ UNCHANGED pc
     ELSE /\ pc' = "store_recv"
          /\ idx' = 1
          /\ UNCHANGED <<inbox, store_log, faults_left, in_flight>>
  /\ UNCHANGED <<arg_vars, nuoca_obj, raised, config_vars, enabled,
                 registry_vars, pipe, proc, cycle_vars, loop_count,
                 wait_count, startup_failed, timedout, accepted, produced>>
  /\ UNCHANGED attempted
  /\ UNCHANGED monitor_vars

\* lines 325-330: the response of one output plugin is read and dropped;
\* after the last one _store_outputs returns to the loop over the Records
store_outputs_recv ==
  /\ pc = "store_recv"
  /\ IF idx <= Len(activated_plugins)
     THEN /\ TimeoutCost(activated_plugins[idx]) <= faults_left
          /\ faults_left' = faults_left - TimeoutCost(activated_plugins[idx])
          /\ pipe' = PipeAfterRecv(activated_plugins[idx])
          /\ in_flight' = FlightAfterPoll(in_flight, activated_plugins[idx])
          /\ idx' = idx + 1
          /\ UNCHANGED <<pc, rec_idx, activated_plugins>>
     ELSE /\ pc' = "cycle"
          /\ rec_idx' = rec_idx + 1
          /\ idx' = 0
          /\ activated_plugins' = << >>
          /\ UNCHANGED <<pipe, faults_left, in_flight>>
  /\ UNCHANGED <<arg_vars, nuoca_obj, raised, config_vars, enabled,
                 registry_vars, inbox, proc, rval, collection_time,
                 loop_count, wait_count, history_vars>>
  /\ UNCHANGED attempted
  /\ UNCHANGED monitor_vars

\* lines 481-483: the cycle is over; a self test ends after
\* SELFTEST_LOOP_COUNT cycles
collection_cycle_return ==
  /\ pc = "cycle"
  /\ RecordsDone(rec_idx, rval)
  /\ enabled' = IF self_test /\ loop_count >= SELFTEST_LOOP_COUNT
                THEN FALSE ELSE enabled
  /\ pc' = "loop"
  /\ UNCHANGED <<arg_vars, nuoca_obj, raised, config_vars, registry_vars,
                 inbox, pipe, proc, idx, cycle_vars, loop_count, wait_count,
                 faults_left, history_vars>>
  /\ UNCHANGED in_flight
  /\ UNCHANGED attempted
  /\ UNCHANGED monitor_vars

(***************************************************************************)
(* nuoca_run's finally clause and NuoCA.shutdown (lines 485-494, 516-519). *)
(***************************************************************************)
\* lines 410-413 and 452-454 alone: the loops over the input plugins
TrackedInputs == input_plugins

\* lines 410-417, 452-457: the input plugins, then the output plugins
Tracked == input_plugins \o output_plugins

\* lines 516-518 as the last statement of the try block: no shutdown after
\* an exception
ShutdownCalledOnReturn(obj, exception) == obj /\ exception = "none"

\* lines 516-518: the finally clause calls shutdown when nuoca_obj is set,
\* whatever was raised
ShutdownCalled(obj, exception) == obj

\* lines 516-518: shutdown is called when the object was constructed; the
\* locals of the calls that returned or were unwound are gone
nuoca_run_finally ==
  /\ pc = "finally"
  /\ IF ShutdownCalled(nuoca_obj, raised)
     THEN /\ pc' = "shutdown_all"
          /\ idx' = 1
     ELSE /\ pc' = "done"
          /\ idx' = 0
  /\ activated_plugins' = << >>
  /\ rval' = << >>
  /\ rec_idx' = 0
  /\ collection_time' = 0
  /\ timedout' = {}
  /\ accepted' = NoList
  /\ produced' = << >>
  /\ store_log' = NoList
  /\ UNCHANGED <<arg_vars, nuoca_obj, raised, config_vars, enabled,
                 registry_vars, inbox, pipe, proc, loop_count, wait_count,
                 faults_left, startup_failed>>
  /\ UNCHANGED in_flight
  /\ UNCHANGED attempted
  /\ UNCHANGED monitor_vars

\* lines 409-417, one tracked plugin: it is deactivated and sent shutdown
shutdown_all_plugins ==
  /\ pc = "shutdown_all"
  /\ IF idx <= Len(Tracked)
     THEN /\ is_activated' = [is_activated EXCEPT ![Tracked[idx]] = FALSE]
          /\ attempted' = Attempt(Tracked[idx], "shutdown")
          /\ \E ok \in SendOutcomes(faults_left) :
               /\ inbox' = Sent(Tracked[idx], "shutdown", ok)
               /\ in_flight' = FlightAfterSend(in_flight, Tracked[idx], ok)
               /\ faults_left' = faults_left - SendCost(ok)
          /\ idx' = idx + 1
          /\ UNCHANGED pc
     ELSE /\ pc' = "remove_all"
          /\ idx' = 1
          /\ UNCHANGED <<is_activated, inbox, faults_left, in_flight,
                         attempted>>
  /\ UNCHANGED <<arg_vars, nuoca_obj, raised, config_vars, enabled, manager,
                 loaded, input_plugins, output_plugins, pipe, proc,
                 cycle_vars, loop_count, wait_count, history_vars>>
  /\ UNCHANGED monitor_vars

\* lines 452-457 and 436-437: exit is sent to one tracked plugin; after the
\* last one kill_all_plugin_processes begins with every plugin of the manager
remove_all_plugins ==
  /\ pc = "remove_all"
  /\ IF idx <= Len(Tracked)
     THEN /\ \E ok \in SendOutcomes(faults_left) :
               /\ inbox' = Sent(Tracked[idx], "exit", ok)
               /\ in_flight' = FlightAfterSend(in_flight, Tracked[idx], ok)
               /\ faults_left' = faults_left - SendCost(ok)
          /\ attempted' = Attempt(Tracked[idx], "exit")
          /\ idx' = idx + 1
          /\ UNCHANGED <<pc, activated_plugins, wait_count>>
     ELSE /\ pc' = "kill_all"
          /\ idx' = 1
          /\ activated_plugins' = getAllPlugins(ManagerOrder)
          /\ wait_count' = SUBPROCESS_EXIT_TIMEOUT
          /\ UNCHANGED <<inbox, faults_left, in_flight, attempted>>
  /\ UNCHANGED <<arg_vars, nuoca_obj, raised, config_vars, enabled,
                 registry_vars, pipe, proc, rval, rec_idx, collection_time,
                 loop_count, history_vars>>
  /\ UNCHANGED monitor_vars

(***************************************************************************)
(* NuoCA.kill_all_plugin_processes (lines 434-444).                        *)
(***************************************************************************)
is_alive(p) == proc[p] = "alive"

\* line 439 waiting for as long as the process is alive
KeepsWaitingForever(p) == is_alive(p)

\* line 439: the condition of the while loop
KeepsWaiting(p) == is_alive(p) /\ wait_count > 0

\* lines 442-444 without the test of line 442
MustTerminateAny(p) == TRUE

\* line 442: the process is still alive after the while loop
MustTerminate(p) == is_alive(p)

\* lines 439-441: one second of sleep
kill_all_sleep ==
  /\ pc = "kill_all"
  /\ idx <= Len(activated_plugins)
  /\ KeepsWaiting(activated_plugins[idx])
  /\ wait_count' = wait_count - 1
  /\ UNCHANGED <<pc, arg_vars, nuoca_obj, raised, config_vars, enabled,
                 registry_vars, inbox, pipe, proc, idx, activated_plugins,
                 rval, rec_idx, collection_time, loop_count, faults_left,
                 history_vars>>
  /\ UNCHANGED in_flight
  /\ UNCHANGED attempted
  /\ UNCHANGED monitor_vars

\* lines 442-444: the while loop is left; a process still alive is terminated
kill_all_next ==
  /\ pc = "kill_all"
  /\ idx <= Len(activated_plugins)
  /\ ~KeepsWaiting(activated_plugins[idx])
  /\ proc' = IF MustTerminate(activated_plugins[idx])
             THEN [proc EXCEPT ![activated_plugins[idx]] = "terminated"]
             ELSE proc
  /\ idx' = idx + 1
  /\ UNCHANGED <<pc, arg_vars, nuoca_obj, raised, config_vars, enabled,
                 registry_vars, inbox, pipe, cycle_vars, loop_count,
                 wait_count, faults_left, history_vars>>
  /\ UNCHANGED in_flight
  /\ UNCHANGED attempted
  /\ UNCHANGED monitor_vars

\* lines 494 and 519: shutdown returns, nuoca_run prints Done
shutdown_returns ==
  /\ pc = "kill_all"
  /\ idx > Len(activated_plugins)
  /\ pc' = "done"
  /\ UNCHANGED <<arg_vars, nuoca_obj, raised, config_vars, enabled,
                 registry_vars, inbox, pipe, proc, idx, cycle_vars,
                 loop_count, wait_count, faults_left, history_vars>>
  /\ UNCHANGED in_flight
  /\ UNCHANGED attempted
  /\ UNCHANGED monitor_vars

(***************************************************************************)
(* The specifications.                                                     *)
(***************************************************************************)
Next ==
  \/ NuoCA_init
  \/ activate_configured_plugins
  \/ activate_and_startup_plugins
  \/ startup_plugin
  \/ start_loop
  \/ collection_loop
  \/ start_returns
  \/ collect_inputs_send
  \/ collect_inputs_recv
  \/ collect_inputs_return
  \/ collection_cycle
  \/ store_outputs_send
  \/ store_outputs_recv
  \/ collection_cycle_return
  \/ nuoca_run_finally
  \/ shutdown_all_plugins
  \/ remove_all_plugins
  \/ kill_all_sleep
  \/ kill_all_next
  \/ shutdown_returns
  \/ \E p \in Plugins : PluginHandle(p)

\* protocol runs
Spec == Init /\ [][Next]_vars

\* data runs
DataSpec == InitData /\ [][Next]_vars

(***************************************************************************)
(* The mpNuoMonitor input plugin (tests/dev/plugins/input/mpNuoMonitor.py): *)
(* the thread of the plugin process that handles the messages of the       *)
(* orchestrator, and the collection thread that startup starts.            *)
(***************************************************************************)
\* the config of the startup message: none, one without a required item, or
\* a complete one with nuomonitor_interval below or above the collection
\* interval of the orchestrator
MonitorConfigs ==
  { [complete |-> FALSE, nuomonitor_interval |-> 0],
    [complete |-> TRUE, nuomonitor_interval |-> 10],
    [complete |-> TRUE, nuomonitor_interval |-> 60] }

\* what _collection_cycle returns in polling cycle n: None (<<>> here, a
\* failed request) or the list of the observations nuomonitor gave
Contents(n) ==
  {<< >>} \cup {[k \in 1..m |-> [poll |-> n, item |-> k]] : m \in 1..MaxContent}

\* lines 73-107: startup validates the config; with a complete one it sets
\* _enabled and starts the collection thread
monitor_startup ==
  /\ mon_state = "new"
  /\ \E config \in MonitorConfigs :
       IF config.complete
       THEN /\ nuomonitor_interval' = config.nuomonitor_interval
            /\ mon_enabled' = TRUE
            /\ thread_pc' = "loop"
            /\ mon_state' = "started"
       ELSE /\ mon_state' = "failed"
            /\ UNCHANGED <<nuomonitor_interval, mon_enabled, thread_pc>>
  /\ UNCHANGED <<mon_public_enabled, thread_loop_count, collect_queue,
                 collect_log, run_vars>>

\* line 59: the condition of the while loop of _collection_thread
thread_loop ==
  /\ thread_pc = "loop"
  /\ thread_loop_count < MaxPolls
  /\ IF mon_enabled
     THEN /\ thread_pc' = "cycle"
          /\ thread_loop_count' = thread_loop_count + 1
     ELSE /\ thread_pc' = "stopped"
          /\ UNCHANGED thread_loop_count
  /\ UNCHANGED <<mon_state, mon_enabled, mon_public_enabled,
                 nuomonitor_interval, collect_queue, collect_log, run_vars>>

\* lines 61-71: one polling cycle; every observation of the content is
\* appended to the queue, and iterating over None raises, which is logged
thread_cycle ==
  /\ thread_pc = "cycle"
  /\ \E content \in Contents(thread_loop_count) :
       collect_queue' = collect_queue \o content
  /\ thread_pc' = "loop"
  /\ UNCHANGED <<mon_state, mon_enabled, mon_public_enabled,
                 nuomonitor_interval, thread_loop_count, collect_log,
                 run_vars>>

\* lines 126-139: the observations collect aggregates, the whole queue
Aggregated(queue) == Range(queue)

\* lines 113-143: collect(collection_interval) returns None when the
\* interval is shorter than the plugin's, else the aggregate of the queue,
\* which it leaves as it is
monitor_collect ==
  /\ mon_state = "started"
  /\ Len(collect_log) < MaxCollects
  /\ collect_log' =
       Append(collect_log,
              IF collection_interval < nuomonitor_interval
              THEN {} ELSE Aggregated(collect_queue))
  /\ UNCHANGED <<mon_state, mon_enabled, mon_public_enabled,
                 nuomonitor_interval, thread_pc, thread_loop_count,
                 collect_queue, run_vars>>

\* lines 109-111: shutdown sets self.enabled; self._enabled is not touched
monitor_shutdown ==
  /\ mon_state \in {"started", "failed"}
  /\ mon_public_enabled' = FALSE
  /\ mon_state' = "shutdown"
  /\ UNCHANGED <<mon_enabled, nuomonitor_interval, thread_pc,
                 thread_loop_count, collect_queue, collect_log, run_vars>>

\* exit: the plugin process ends, and its daemon thread with it
monitor_exit ==
  /\ mon_state = "shutdown"
  /\ mon_state' = "exited"
  /\ thread_pc' = IF thread_pc = "none" THEN "none" ELSE "dead"
  /\ UNCHANGED <<mon_enabled, mon_public_enabled, nuomonitor_interval,
                 thread_loop_count, collect_queue, collect_log, run_vars>>

MonitorNext ==
  \/ monitor_startup
  \/ thread_loop
  \/ thread_cycle
  \/ monitor_collect
  \/ monitor_shutdown
  \/ monitor_exit

\* the orchestrator takes no step in the runs of the plugin
InitMonitor ==
  /\ Fresh
  /\ MonitorFresh
  /\ starttime = << >>
  /\ current_timestamp = 1
  /\ self_test = FALSE
  /\ output_values = EmptyDict
  /\ candidates = {}
  /\ lists = {}
  /\ faults_left = 0

\* runs of the mpNuoMonitor plugin process
MonitorSpec == InitMonitor /\ [][MonitorNext]_vars

(***************************************************************************)
(* Properties of the collection cycle.                                     *)
(***************************************************************************)
\* a cycle is over: it returned to the interval loop, or an exception left it
CycleReturned == pc = "loop" /\ loop_count > 0
CycleRaised == pc = "finally" /\ raised = "KeyError"

\* the outputs a cycle stores to
ActivatedOutputs == Range(GetActivated(OUTPUT_PLUGINS))

\* C1: no exception escapes _collection_cycle, whatever one plugin does: a
\* send failure, a timeout, an empty payload, a payload without status_code
\* or without resp_values, a non-zero status, collected_values that is no
\* list.  The only exception a cycle can raise here is the KeyError of
\* line 263, so the claim says it is never raised.
C1_NoExceptionEscapesCycle == raised # "KeyError"

\* C2: a plugin whose startup response had a non-zero status_code, had no
\* status_code or did not come within the timeout is never sent collect or
\* store afterwards.
C2_FailedStartupGetsNoWork ==
  [][\A p \in startup_failed :
       /\ inbox'[p] # Append(inbox[p], "collect")
       /\ inbox'[p] # Append(inbox[p], "store")]_vars

\* C2 happens: an input plugin failed its startup and a cycle is collecting
\* from another input plugin
C2_Witness ==
  /\ pc = "collect_recv"
  /\ \E p \in startup_failed \cap InputNames :
       \E q \in InputNames \ {p} : "collect" \in Range(inbox[q])

\* the Records of rval that came from a plugin that answered within the
\* timeout
TimelyRecords == {i \in 1..Len(produced) : produced[i].plugin \notin timedout}

\* C3: when one activated input plugin lets the collect poll time out and
\* another answers in time, the Records of the one in time are stored to
\* every activated output in that cycle.
C3_TimelyRecordsStored ==
  (CycleReturned \/ CycleRaised) /\ timedout # {}
    => \A i \in TimelyRecords :
         \A o \in ActivatedOutputs : rval[i] \in Range(store_log[o])

\* C4: in a cycle with at least one Record each activated output gets
\* exactly one store message, and it carries all the Records of the cycle
\* in order.
C4_OneStoreMessagePerCycle ==
  CycleReturned /\ rval # << >>
    => \A o \in ActivatedOutputs :
         Len(store_log[o]) = 1 /\ store_log[o] = rval

(***************************************************************************)
(* Properties of the Records.                                              *)
(***************************************************************************)
\* the number of Records in rval that came from plugin p
RecordsOf(p) == Cardinality({i \in 1..Len(produced) : produced[i].plugin = p})

\* the prefix of the keys of Record i: the nuocaCollectionName of its raw
\* map, else the name of its plugin
RecordPrefix(i) ==
  IF "nuocaCollectionName" \in DOMAIN produced[i].raw
  THEN produced[i].raw["nuocaCollectionName"].s
  ELSE produced[i].plugin

\* every key a nuocaCollectionName or a TimeStamp field could be stored under
NameKeys ==
  {"nuocaCollectionName"}
  \cup {pre \o ".nuocaCollectionName" : pre \in Plugins \cup {"custom"}}
TimeStampKeys == {pre \o ".TimeStamp" : pre \in Plugins \cup {"custom"}}

\* C5: a collect response that is accepted and whose collected_values list
\* holds N raw maps gives exactly N Records; the fields of a raw map are
\* keyed <prefix>.<field> in its Record, and nuocaCollectionName is never a
\* data field.
C5_OneRecordPerMap ==
  /\ \A p \in InputNames : RecordsOf(p) = Len(accepted[p])
  /\ \A i \in 1..Len(produced) :
       /\ \A f \in DOMAIN produced[i].raw \ {"nuocaCollectionName", "TimeStamp"} :
            (RecordPrefix(i) \o "." \o f) \in DOMAIN rval[i]
       /\ DOMAIN rval[i] \cap NameKeys = {}

\* a Record is being passed to _store_outputs
Storing == pc \in {"store_send", "store_recv"}

\* C6: a Record made from a raw map with a TimeStamp field has timestamp set
\* to the integer value of that field, and no <prefix>.TimeStamp key is left
\* in the Record that is passed to store.
C6_TimeStampConsumed ==
  Storing /\ "TimeStamp" \in DOMAIN produced[rec_idx].raw
    => /\ rval[rec_idx]["timestamp"] =
            Int_(IntOf(produced[rec_idx].raw["TimeStamp"]))
       /\ DOMAIN rval[rec_idx] \cap TimeStampKeys = {}

\* C7: every Record passed to store has collection_interval equal to the
\* configured interval, and its timestamp is the one derived from TimeStamp
\* when the raw map had one, else the tick timestamp in milliseconds.
C7_RecordTimestamp ==
  Storing
    => /\ rval[rec_idx]["collection_interval"] = Int_(collection_interval)
       /\ rval[rec_idx]["timestamp"] =
            IF "TimeStamp" \in DOMAIN produced[rec_idx].raw
            THEN Int_(IntOf(produced[rec_idx].raw["TimeStamp"]))
            ELSE Int_(collection_time)

\* C7 amended: every Record passed to store has collection_interval equal to
\* the configured interval; its timestamp is the static output value
\* configured under the key timestamp when there is one, else the one
\* derived from TimeStamp when the raw map had one, else the tick timestamp
\* in milliseconds.
C7_RecordTimestampUnlessStatic ==
  Storing
    => /\ rval[rec_idx]["collection_interval"] = Int_(collection_interval)
       /\ rval[rec_idx]["timestamp"] =
            IF "timestamp" \in DOMAIN output_values
            THEN output_values["timestamp"]
            ELSE IF "TimeStamp" \in DOMAIN produced[rec_idx].raw
            THEN Int_(IntOf(produced[rec_idx].raw["TimeStamp"]))
            ELSE Int_(collection_time)

\* C7 happens: the second Record of a cycle, without TimeStamp, is stored
\* with the tick timestamp after the first, with TimeStamp, was stored with
\* the derived one, and a static collection_interval did not replace the
\* configured one
C7_Witness ==
  /\ pc = "store_recv"
  /\ rec_idx = 2
  /\ "TimeStamp" \in DOMAIN produced[1].raw
  /\ "TimeStamp" \notin DOMAIN produced[2].raw
  /\ rval[1]["timestamp"] = Int_(1000)
  /\ rval[2]["timestamp"] = Int_(collection_time)
  /\ \E o \in ActivatedOutputs : store_log[o] = rval

\* the keys of the Record being stored that came from plugin output
PluginKeys ==
  {RecordPrefix(rec_idx) \o "." \o f :
     f \in DOMAIN produced[rec_idx].raw \ {"nuocaCollectionName"}}
  \cup (IF "TimeStamp" \in DOMAIN produced[rec_idx].raw
        THEN {"timestamp"} ELSE {})

\* C8: every static output key is in every Record passed to store, and a
\* static key that is also a key made from plugin output carries the static
\* value.
C8_StaticValuesWin ==
  Storing
    => \A k \in DOMAIN output_values :
         /\ k \in DOMAIN rval[rec_idx]
         /\ k \in PluginKeys => rval[rec_idx][k] = output_values[k]

\* C8 happens: the plugin gave A.x, the static values give A.x too, and the
\* Record sent to an output carries the static one
C8_Witness ==
  /\ pc = "store_recv"
  /\ "A.x" \in DOMAIN output_values
  /\ "A.x" \in PluginKeys
  /\ produced[rec_idx].raw["x"] # output_values["A.x"]
  /\ \E o \in ActivatedOutputs :
       /\ store_log[o] # << >>
       /\ store_log[o][Len(store_log[o])]["A.x"] = output_values["A.x"]

(***************************************************************************)
(* Properties of shutdown and of construction.                             *)
(***************************************************************************)
\* the one-second waits kill_all_plugin_processes has made
ReapWaits == SUBPROCESS_EXIT_TIMEOUT - wait_count

\* what is left for kill_all_plugin_processes to do: the waits it may still
\* make and the plugins it has still to look at
ReapLeft == wait_count + (Len(activated_plugins) + 1 - idx)

\* kill_all_plugin_processes takes a step
ReapStep == pc = "kill_all" /\ <<pc, idx, wait_count>>' # <<pc, idx, wait_count>>

\* C9: kill_all_plugin_processes makes at most timeout one-second waits, so a
\* process that never exits after exit was sent is terminated after at most
\* that many; it can always take a step and every step brings it nearer to
\* its return, so it returns; and after it returned every plugin process
\* exited on its own or was terminated, for zero, three and four plugins.
C9_ReapTerminatesAll ==
  /\ [](pc = "kill_all" =>
          /\ ReapWaits \in 0..SUBPROCESS_EXIT_TIMEOUT
          /\ ENABLED (kill_all_sleep \/ kill_all_next \/ shutdown_returns))
  /\ [](pc = "done" /\ nuoca_obj =>
          \A p \in loaded : proc[p] \in {"exited", "terminated"})
  /\ [][ReapStep => pc' = "done" \/ ReapLeft' < ReapLeft]_vars

\* C9 happens: a process that was sent exit and never handled it was
\* terminated after timeout waits, another exited on its own, and
\* kill_all_plugin_processes returned
C9_Witness ==
  /\ pc = "done"
  /\ ReapWaits = SUBPROCESS_EXIT_TIMEOUT
  /\ \E p \in loaded : proc[p] = "terminated" /\ "exit" \in Range(inbox[p])
  /\ \E p \in loaded : proc[p] = "exited"

\* C10: a starttime that is supplied and is not strictly later than the
\* time of construction is rejected: the constructor raises AttributeError,
\* no NuoCA object exists, and then no plugin manager is created, no plugin
\* is activated and no message is sent.
C10_PastStartTimeRejected ==
  /\ [][pc = "init" /\ starttime # << >> /\ current_timestamp >= starttime[1]
          => raised' = "AttributeError" /\ ~nuoca_obj']_vars
  /\ [](raised = "AttributeError" =>
          /\ ~manager
          /\ loaded = {}
          /\ \A p \in Plugins : ~is_activated[p] /\ inbox[p] = << >>)

(***************************************************************************)
(* Properties of the message protocol and of the lifecycle.                *)
(***************************************************************************)
\* the candidates the configuration does not name in their category
NotConfigured == Unconfigured \cup Miscategorised

\* C11: a candidate that the configuration does not name in its category is
\* never activated and is never sent a message, whatever candidates are
\* found.
C11_ConfigurationIsAllowlist ==
  \A p \in NotConfigured :
    ~is_activated[p] /\ inbox[p] = << >> /\ pipe[p] = << >>

\* C11 happens: a candidate that is not configured at all and one that is
\* configured in another category were found, the second has a process, and
\* a cycle is collecting from the configured plugins
C11_Witness ==
  /\ NotConfigured \subseteq candidates
  /\ \E p \in Miscategorised : p \in loaded /\ proc[p] = "alive"
  /\ pc = "collect_recv"
  /\ \E q \in InputNames : "collect" \in Range(inbox[q])

\* C12: at most one request is in flight to a plugin at any time, over
\* startup, the cycles, shutdown and exit: no message is sent to a plugin
\* while an earlier one was neither answered to the orchestrator nor timed
\* out.
C12_OneInFlight == \A p \in Plugins : in_flight[p] <= 1

\* _get_plugin_respose reads a response from the pipe of p and returns it
ResponseReturned(p) ==
  /\ pipe[p] # << >>
  /\ pipe'[p] = Tail(pipe[p])
  /\ ~Falsy(CheckedResponse(Head(pipe[p])))

\* the requests to p that have no response read yet: the ones p has not
\* handled and the ones whose response is in the pipe.  The oldest response
\* in the pipe answers the request in flight only when there is no other.
Backlog(p) == Len(inbox[p]) + Len(pipe[p])

\* C13: the response to a request that timed out is never returned as the
\* response to a later request: every response _get_plugin_respose returns
\* answers the request that is in flight.
C13_LateResponseDiscarded ==
  [][\A p \in Plugins : ResponseReturned(p) => Backlog(p) <= in_flight[p]]_vars

\* _collect_inputs reads from the pipe of input plugin p a collect response
\* whose status_code is not 0
FailedCollectRead(p) ==
  /\ pc = "collect_recv"
  /\ idx <= Len(activated_plugins)
  /\ activated_plugins[idx] = p
  /\ pipe[p] # << >>
  /\ pipe'[p] = Tail(pipe[p])
  /\ "status_code" \in DOMAIN Head(pipe[p])
  /\ Head(pipe[p])["status_code"] # 0

\* C14: a collect response whose status_code is not 0 is skipped: the cycle
\* goes on to the next plugin and nothing of that response becomes a Record.
C14_FailedCollectSkipped ==
  [][\A p \in InputNames :
       FailedCollectRead(p) => rval' = rval /\ idx' = idx + 1]_vars

\* _collect_inputs comes to input plugin p in its loop over the responses,
\* and the collect it sent to p in this cycle had failed
UnsentCollectPassed(p) ==
  /\ pc = "collect_recv"
  /\ idx <= Len(activated_plugins)
  /\ activated_plugins[idx] = p
  /\ in_flight[p] = 0
  /\ idx' = idx + 1

\* C15: an input plugin to which collect could not be sent is skipped for
\* the cycle: the orchestrator neither waits out the timeout for it nor
\* reads a response from it, it gives no Records, and it stays activated.
C15_UnsentCollectSkipped ==
  [][\A p \in InputNames :
       UnsentCollectPassed(p)
         => /\ p \notin timedout'
            /\ pipe'[p] = pipe[p]
            /\ rval' = rval
            /\ is_activated'[p]]_vars

\* shutdown() is running
ShuttingDown == pc \in {"shutdown_all", "remove_all", "kill_all"}

\* a step of shutdown() that sends nothing, terminates nothing, waits for
\* nothing and raises nothing
IdleStep ==
  /\ inbox' = inbox
  /\ proc' = proc
  /\ ~(pc = "kill_all" /\ wait_count' < wait_count)
  /\ raised' = raised

\* shutdown() can go on
ShutdownGoesOn ==
  ENABLED (shutdown_all_plugins \/ remove_all_plugins \/ kill_all_sleep
           \/ kill_all_next \/ shutdown_returns)

\* C16: shutdown() with no plugin activated and none tracked is a no-op
\* that returns: it sends no message, terminates no process and does not
\* wait.
C16_ShutdownOfNothing ==
  /\ [][ShuttingDown /\ Tracked = << >> /\ (\A p \in Plugins : ~is_activated[p])
          => IdleStep]_vars
  /\ [](ShuttingDown /\ Tracked = << >> => ShutdownGoesOn)

\* no candidate found has a name the configuration names
NothingToLoad == \A c \in candidates : PluginName(c) \notin Range(Configured)

\* C16 amended: shutdown() when the manager holds no plugin, no candidate
\* found having a configured name, is a no-op that returns: it sends no
\* message, terminates no process and does not wait.  (A plugin that was
\* loaded and never tracked is waited for and terminated.)
C16_ShutdownOfNoPlugins ==
  /\ [][ShuttingDown /\ NothingToLoad => IdleStep]_vars
  /\ [](ShuttingDown /\ NothingToLoad => ShutdownGoesOn)
  /\ [](pc = "done" /\ nuoca_obj /\ NothingToLoad =>
          wait_count = SUBPROCESS_EXIT_TIMEOUT
          /\ \A p \in Plugins : proc[p] = "none" /\ inbox[p] = << >>)

\* C16 happens: candidates were found, none was loaded, and shutdown()
\* returned without having waited
C16_Witness ==
  /\ pc = "done"
  /\ nuoca_obj
  /\ candidates # {}
  /\ NothingToLoad
  /\ wait_count = SUBPROCESS_EXIT_TIMEOUT
  /\ raised = "none"

\* start() was called and is over: it returned or an exception left it
StartOver ==
  nuoca_obj /\ pc \in {"finally", "shutdown_all", "remove_all", "kill_all", "done"}

\* C17: with self_test start() runs exactly SELFTEST_LOOP_COUNT cycles and
\* returns, whatever the plugins do; without self_test start() never ends.
C17_SelfTestRunsBoundedCycles ==
  StartOver
    => self_test /\ loop_count = SELFTEST_LOOP_COUNT /\ raised = "none"

\* the times startup was sent to p
Startups(p) ==
  Cardinality({i \in 1..Len(attempted[p]) : attempted[p][i] = "startup"})

\* the configured plugins that activation finds
Activatable == Range(Configured) \cap candidates

\* start() is past _activate_configured_plugins
PastStartup == nuoca_obj /\ pc \notin {"init", "start", "activate", "startup"}

\* collect or store reaches p
WorkSent(p) ==
  \/ inbox'[p] = Append(inbox[p], "collect")
  \/ inbox'[p] = Append(inbox[p], "store")

\* C18: startup is sent once to every configured plugin that was activated
\* and never to another; it is the first message to the plugin, before any
\* collect or store; and no collect or store is sent before startup was
\* tried on every configured plugin.
C18_StartupOnceAndFirst ==
  /\ [](\A p \in Plugins : Startups(p) <= 1)
  /\ [](PastStartup =>
          \A p \in Plugins :
            Startups(p) = (IF p \in Activatable THEN 1 ELSE 0))
  /\ [][\A p \in Plugins :
          WorkSent(p)
            => /\ attempted[p] # << >>
               /\ attempted[p][1] = "startup"
               /\ \A q \in Activatable : Startups(q) = 1]_vars

\* C18 happens: in the second cycle collect is in the pipe of an input
\* plugin that was sent startup once, and a second configured plugin was
\* sent startup once as well
C18_Witness ==
  /\ loop_count = 2
  /\ pc = "collect_recv"
  /\ \E p \in InputNames :
       /\ attempted[p] = <<"startup">>
       /\ "collect" \in Range(inbox[p])
       /\ \E q \in OutputNames : attempted[q] = <<"startup">>

\* the interval loop begins another cycle after one that returned
NextCycleBegins == pc = "loop" /\ loop_count > 0 /\ pc' = "collect_send"

\* collect reaches some plugin
CollectSent == \E p \in Plugins : inbox'[p] = Append(inbox[p], "collect")

\* C19: before any collect of the next cycle is sent, the store of every
\* Record of the cycle was sent to every activated output and its response
\* was read or timed out.
C19_StoreBeforeNextCollect ==
  /\ [][NextCycleBegins =>
          /\ rec_idx > Len(rval)
          /\ \A o \in ActivatedOutputs :
               Len(store_log[o]) = Len(rval) /\ in_flight[o] = 0]_vars
  /\ [][CollectSent => \A o \in ActivatedOutputs : in_flight[o] = 0]_vars

\* C19 happens: a cycle that stored two Records to an activated output is
\* over and the loop is about to begin the next one
C19_Witness ==
  /\ pc = "loop"
  /\ enabled
  /\ loop_count = 1
  /\ ~self_test
  /\ Len(rval) = 2
  /\ \E o \in ActivatedOutputs : Len(store_log[o]) = 2 /\ in_flight[o] = 0

\* shutdown() has sent its messages
ShutdownSent == nuoca_obj /\ pc \in {"kill_all", "done"}

\* startup was attempted for p
StartupAttempted(p) == "startup" \in Range(attempted[p])

\* the lifecycle messages of p end with shutdown, then the only exit
ShutdownThenExit(p) ==
  LET n == Len(attempted[p])
  IN  /\ n >= 3
      /\ attempted[p][n] = "exit"
      /\ attempted[p][n - 1] = "shutdown"
      /\ \A i \in 1..(n - 1) : attempted[p][i] # "exit"

\* C20: once shutdown() has sent its messages, every plugin for which startup
\* was attempted, failed or not, was sent shutdown and after it exit, whatever
\* sends failed; from the end of _shutdown_all_plugins no plugin is activated.
C20_ShutdownThenExitForAll ==
  /\ ShutdownSent =>
       \A p \in Plugins : StartupAttempted(p) => ShutdownThenExit(p)
  /\ nuoca_obj /\ pc \in {"remove_all", "kill_all", "done"} =>
       \A p \in Plugins : ~is_activated[p]

\* C20 happens: exit did not reach an earlier plugin, whose process is
\* alive with no exit to handle, and a later plugin was sent shutdown and
\* exit; a plugin whose startup failed is among those sent both
C20_Witness ==
  /\ ShutdownSent
  /\ pc = "kill_all"
  /\ \E i, j \in 1..Len(Tracked) :
       /\ i < j
       /\ proc[Tracked[i]] = "alive"
       /\ "exit" \notin Range(inbox[Tracked[i]])
       /\ ShutdownThenExit(Tracked[i])
       /\ Len(inbox[Tracked[j]]) >= 2
       /\ SubSeq(inbox[Tracked[j]], Len(inbox[Tracked[j]]) - 1,
                 Len(inbox[Tracked[j]])) = <<"shutdown", "exit">>
  /\ \E p \in startup_failed : StartupAttempted(p) /\ ShutdownThenExit(p)

(***************************************************************************)
(* Properties of nuoca_run's cleanup.                                      *)
(***************************************************************************)
\* p was activated at some time: startup is attempted right after every
\* activation that start() survives, and nothing deactivates a plugin that
\* had no startup attempt
WasActivated(p) == StartupAttempted(p) \/ is_activated[p]

\* the lifecycle messages p was sent
Sends(p, action) == {i \in 1..Len(attempted[p]) : attempted[p][i] = action}

\* the steps of shutdown() and what follows it
ShutdownPhases == {"shutdown_all", "remove_all", "kill_all", "done"}

\* C21: when the object was constructed, nuoca_run ends with shutdown done
\* once, so every plugin activated before start() returned or raised was
\* sent shutdown and one exit and its process is gone; when construction
\* failed no plugin was activated, no process exists and nothing was sent.
C21_CleanupAlways ==
  /\ [](pc = "done" /\ nuoca_obj =>
          \A p \in Plugins :
            WasActivated(p) =>
              /\ Sends(p, "shutdown") # {}
              /\ Cardinality(Sends(p, "exit")) = 1
              /\ proc[p] \in {"exited", "terminated"})
  /\ [](pc = "done" /\ ~nuoca_obj =>
          \A p \in Plugins :
            ~is_activated[p] /\ attempted[p] = << >> /\ proc[p] = "none")
  /\ [][/\ pc = "finally" => pc' = (IF nuoca_obj THEN "shutdown_all" ELSE "done")
        /\ pc' = "shutdown_all" => pc \in {"finally", "shutdown_all"}
        /\ pc \in ShutdownPhases => pc' \in ShutdownPhases]_vars

\* C21 happens: start() raised out of a cycle with two plugins activated,
\* and nuoca_run is done with both sent shutdown and exit and none alive
C21_Witness ==
  /\ pc = "done"
  /\ nuoca_obj
  /\ raised = "KeyError"
  /\ \E p, q \in Plugins :
       /\ p # q
       /\ StartupAttempted(p) /\ StartupAttempted(q)
       /\ p \notin startup_failed
       /\ ShutdownThenExit(p) /\ ShutdownThenExit(q)
       /\ proc[p] = "exited"
       /\ proc[q] \in {"exited", "terminated"}

\* the processes terminate() is called on in a step
Terminated == {p \in Plugins : proc[p] # "terminated" /\ proc'[p] = "terminated"}

\* C22: kill_all_plugin_processes makes at most timeout one-second waits
\* for all plugins together, each for a plugin that is alive; it terminates
\* a plugin only when no wait is left and the plugin is alive; a process
\* that exited is never terminated.
C22_NoPrematureTerminate ==
  /\ [](pc = "kill_all" => wait_count \in 0..SUBPROCESS_EXIT_TIMEOUT)
  /\ [][wait_count' # wait_count /\ pc = "kill_all"
          => /\ wait_count' = wait_count - 1
             /\ is_alive(activated_plugins[idx])]_vars
  /\ [][\A p \in Terminated :
          /\ pc = "kill_all"
          /\ p = activated_plugins[idx]
          /\ wait_count = 0
          /\ proc[p] = "alive"]_vars
  /\ [][\A p \in Plugins : proc[p] = "exited" => proc'[p] = "exited"]_vars

\* C22 happens: the waits were used up on the first process that stayed
\* alive, a later one was terminated without a wait of its own, and a
\* process that exited was left alone
C22_Witness ==
  /\ pc = "done"
  /\ wait_count = 0
  /\ \E i, j, k \in 1..Len(activated_plugins) :
       /\ i < j
       /\ proc[activated_plugins[i]] = "terminated"
       /\ proc[activated_plugins[j]] = "terminated"
       /\ proc[activated_plugins[k]] = "exited"

\* a store message is sent, or its send is tried
StoreAttempted ==
  \E p \in Plugins :
    \/ inbox'[p] = Append(inbox[p], "store")
    \/ Len(store_log'[p]) > Len(store_log[p])

\* C23: a cycle in which _collect_inputs has produced no Record sends no
\* store message: every store is sent by _store_outputs for a Record that
\* was produced in the cycle.
C23_NoRecordNoStore ==
  /\ [][StoreAttempted
          => /\ pc = "store_send"
             /\ produced # << >>
             /\ rec_idx \in 1..Len(produced)]_vars
  /\ [](produced = << >> => \A p \in Plugins : store_log[p] = << >>)

\* C23 happens: a cycle is over in which two input plugins were asked, one
\* timed out and none gave a Record, while an output plugin was activated
\* and got no store
C23_Witness ==
  /\ CycleReturned
  /\ produced = << >>
  /\ rval = << >>
  /\ timedout # {}
  /\ Len(GetActivated(INPUT_PLUGINS)) >= 2
  /\ \E o \in ActivatedOutputs :
       store_log[o] = << >> /\ "store" \notin Range(inbox[o])

(***************************************************************************)
(* Properties of the mpNuoMonitor plugin.                                  *)
(***************************************************************************)
\* C24: once mpNuoMonitor has handled shutdown the condition of the loop
\* of its collection thread is false, so the thread begins no further
\* polling cycle and appends nothing more to the collect queue.
C24_ThreadStopsAfterShutdown ==
  mon_state = "shutdown" => ~mon_enabled

\* C25: every observation is aggregated by at most one collect call, and
\* after a collect call the queue holds none of the observations that call
\* aggregated.
C25_CollectReturnsNewOnly ==
  /\ \A i, j \in 1..Len(collect_log) :
       i < j => collect_log[i] \cap collect_log[j] = {}
  /\ \A i \in 1..Len(collect_log) :
       collect_log[i] \cap Range(collect_queue) = {}

============================================================================
